---------------------------- MODULE Spec2Model ----------------------------
(***************************************************************************)
(* A model of src/main.py: the ThoughtVisualizer (a networkx DiGraph keyed *)
(* by time.time() readings plus a deque(maxlen=10) of the latest keys),    *)
(* the ScienceAnalyzer keyword scorer, and the UniversalAgent's            *)
(* process_query / run_interactive loop.                                   *)
(*                                                                         *)
(* Strings are sequences of pieces.  Text that the code inspects character *)
(* by character (queries, responses, keywords) is a sequence of one-       *)
(* character strings; a literal of the code that is only ever concatenated *)
(* is one piece.  Concatenation is \o.  A float that the code computes as  *)
(* a quotient of two integers is the pair <<numerator, denominator>>.      *)
(***************************************************************************)
EXTENDS Integers, Sequences, FiniteSets, TLC

VARIABLES
    thought_graph,   \* ThoughtVisualizer.thought_graph: [node, edge]
    thought_queue,   \* ThoughtVisualizer.thought_queue: deque(maxlen=10)
    clock,           \* the latest value time.time() returned
    calls,           \* log of the add_thought calls made: [key, thought, category]
    text,            \* the argument of the latest analyze_text call
    scores,          \* what that call returned
    pc,              \* run_interactive: "prompt" in the loop, "done" after it
    query,           \* what Prompt.ask returned in the latest iteration
    sent,            \* the arguments of the chat.send_message calls made
    submitted,       \* the number of process_query calls made
    raised,          \* what the steps of the latest process_query raised
    result,          \* what the latest process_query returned
    console          \* what the latest iteration printed

viz_vars == <<thought_graph, thought_queue, clock, calls>>
analyzer_vars == <<text, scores>>
agent_vars == <<pc, query, sent, submitted, raised, result, console>>
vars == <<viz_vars, analyzer_vars, agent_vars>>

-----------------------------------------------------------------------------
(* Bounds of the model. *)

\* add_thought calls made in one run of the stand-alone visualizer
MaxThoughts == 11

\* time.time() readings, in one run, equal to the reading before them
MaxSameReads == 1

\* fragments a text given to analyze_text is made of
MaxFragments == 2

\* process_query calls made in one session
MaxTurns == 2

-----------------------------------------------------------------------------
(* Helpers on sequences. *)

Last(s) == s[Len(s)]

Range(s) == {s[i] : i \in DOMAIN s}

Min(a, b) == IF a < b THEN a ELSE b

-----------------------------------------------------------------------------
(* class ThoughtVisualizer *)

\* deque(maxlen=10)
QueueMaxLen == 10

\* nx.DiGraph(): no node, no edge
EmptyGraph == [node |-> <<>>, edge |-> {}]

\* DiGraph.add_node(n, **attr): creates the node, or updates the attributes
\* of the node that already has this key
add_node(g, n, attr) ==
    [g EXCEPT !.node =
        IF n \in DOMAIN g.node
        THEN [g.node EXCEPT ![n] = attr]
        ELSE [k \in DOMAIN g.node \cup {n} |->
                 IF k = n THEN attr ELSE g.node[k]]]

\* DiGraph.add_edge(u, v): both ends are nodes already when add_thought calls it
add_edge(g, u, v) == [g EXCEPT !.edge = g.edge \cup {<<u, v>>}]

\* deque.append on a deque without maxlen
deque_append_unbounded(q, x) == Append(q, x)

\* deque.append on a deque with maxlen: a full deque drops its oldest entry
deque_append(q, x) ==
    IF Len(q) = QueueMaxLen THEN Append(Tail(q), x) ELSE Append(q, x)

\* the edge add_thought adds: from the latest key of the queue, when there is one
link_thought(g, q, timestamp) ==
    IF Len(q) > 0 THEN add_edge(g, Last(q), timestamp) ELSE g

\* add_thought(thought, category) when time.time() returns timestamp:
\* the graph and the queue after the call
add_thought(g, q, thought, category, timestamp) ==
    [graph |-> link_thought(
                   add_node(g, timestamp,
                            [thought |-> thought, category |-> category]),
                   q, timestamp),
     queue |-> deque_append(q, timestamp)]

\* the call log after the same call
log_thought(log, thought, category, timestamp) ==
    Append(log, [key |-> timestamp, thought |-> thought, category |-> category])

\* the visualizer [graph, queue] and the call log after the same call
record_thought(st, thought, category, timestamp) ==
    LET a == add_thought(st.graph, st.queue, thought, category, timestamp)
    IN  [graph |-> a.graph, queue |-> a.queue,
         calls |-> log_thought(st.calls, thought, category, timestamp)]

\* "sep".join(list)
RECURSIVE join(_, _)
join(sep, list) ==
    IF list = <<>> THEN <<>>
    ELSE IF Len(list) = 1 THEN list[1]
    ELSE list[1] \o sep \o join(sep, Tail(list))

\* the separator of generate_visualization: a newline, the box-drawing
\* characters U+2514 and U+2500 (written +- here), then "> "
Arrow == <<"\n+-> ">>

\* f"[{category}] {thought}"
render_thought(attr) == <<"[">> \o attr.category \o <<"] ">> \o attr.thought

\* the elements of a set of keys in increasing order
RECURSIVE sorted(_)
sorted(S) ==
    IF S = {} THEN <<>>
    ELSE LET m == CHOOSE m \in S : \A n \in S : m <= n
         IN  <<m>> \o sorted(S \ {m})

\* a visualization that lists every node of the graph, not the queue
generate_visualization_of_graph(g, q) ==
    IF Cardinality(DOMAIN g.node) = 0
    THEN <<"No thoughts processed yet.">>
    ELSE LET ns == sorted(DOMAIN g.node)
         IN  join(Arrow, [i \in DOMAIN ns |-> render_thought(g.node[ns[i]])])

\* generate_visualization()
generate_visualization(g, q) ==
    IF Cardinality(DOMAIN g.node) = 0
    THEN <<"No thoughts processed yet.">>
    ELSE join(Arrow,
              [i \in DOMAIN q |-> render_thought(g.node[q[i]])])

-----------------------------------------------------------------------------
(* Strings: str.lower(), the in operator, str.split(), str(int), :.2f *)

UpperCase == <<"A", "B", "C", "D", "E", "F", "G", "H", "I", "J", "K", "L", "M",
               "N", "O", "P", "Q", "R", "S", "T", "U", "V", "W", "X", "Y", "Z">>
LowerCase == <<"a", "b", "c", "d", "e", "f", "g", "h", "i", "j", "k", "l", "m",
               "n", "o", "p", "q", "r", "s", "t", "u", "v", "w", "x", "y", "z">>

lower_char(c) ==
    IF \E i \in DOMAIN UpperCase : UpperCase[i] = c
    THEN LowerCase[CHOOSE i \in DOMAIN UpperCase : UpperCase[i] = c]
    ELSE c

\* a comparison that keeps the letter case
lower_identity(s) == s

\* str.lower()
lower(s) == [i \in DOMAIN s |-> lower_char(s[i])]

\* needle in hay, for two strings
contains(needle, hay) ==
    \E i \in 1..(Len(hay) - Len(needle) + 1) :
        SubSeq(hay, i, i + Len(needle) - 1) = needle

\* hay.count(needle): the non-overlapping occurrences, found left to right
RECURSIVE count_occurrences(_, _)
count_occurrences(needle, hay) ==
    IF ~contains(needle, hay) THEN 0
    ELSE LET i == CHOOSE i \in 1..(Len(hay) - Len(needle) + 1) :
                    /\ SubSeq(hay, i, i + Len(needle) - 1) = needle
                    /\ \A j \in 1..(i - 1) :
                           SubSeq(hay, j, j + Len(needle) - 1) # needle
         IN  1 + count_occurrences(needle, SubSeq(hay, i + Len(needle), Len(hay)))

\* the characters str.split() splits on
Whitespace == {" ", "\t", "\n", "\r", "\f"}

\* str.split(): the maximal runs of characters that are not whitespace
RECURSIVE split_from(_, _, _)
split_from(s, i, word) ==
    IF i > Len(s) THEN (IF word = <<>> THEN <<>> ELSE <<word>>)
    ELSE IF s[i] \in Whitespace
         THEN (IF word = <<>> THEN <<>> ELSE <<word>>) \o split_from(s, i + 1, <<>>)
         ELSE split_from(s, i + 1, Append(word, s[i]))

split(s) == split_from(s, 1, <<>>)

Digits == <<"0", "1", "2", "3", "4", "5", "6", "7", "8", "9">>

\* str(n), n >= 0
RECURSIVE str_int(_)
str_int(n) ==
    IF n < 10 THEN <<Digits[n + 1]>>
    ELSE str_int(n \div 10) \o <<Digits[(n % 10) + 1]>>

\* a / b rounded to the nearest integer, a tie going to the even one
round_div(a, b) ==
    LET q == a \div b
        r == a % b
    IN  IF 2 * r > b \/ (2 * r = b /\ q % 2 = 1) THEN q + 1 ELSE q

\* f"{x:.2f}" of the float x = r[1] / r[2] >= 0.  A quotient whose third
\* decimal is an exact 5 is rounded by its binary value; the denominators
\* met here (3, and the word counts of the replies) give no such quotient.
format_2f(r) ==
    LET h == round_div(100 * r[1], r[2])
    IN  str_int(h \div 100) \o <<".">> \o
        <<Digits[((h % 100) \div 10) + 1], Digits[(h % 10) + 1]>>

-----------------------------------------------------------------------------
(* class ScienceAnalyzer *)

\* self.principles, in the dict's insertion order
Categories == <<"quantum", "thermo", "relativity", "biology">>

principles ==
    [quantum |->
        <<<<"s", "u", "p", "e", "r", "p", "o", "s", "i", "t", "i", "o", "n">>,
          <<"e", "n", "t", "a", "n", "g", "l", "e", "m", "e", "n", "t">>,
          <<"u", "n", "c", "e", "r", "t", "a", "i", "n", "t", "y">>>>,
     thermo |->
        <<<<"e", "n", "t", "r", "o", "p", "y">>,
          <<"e", "n", "e", "r", "g", "y", " ", "c", "o", "n", "s", "e", "r", "v", "a", "t", "i", "o", "n">>,
          <<"h", "e", "a", "t", " ", "t", "r", "a", "n", "s", "f", "e", "r">>>>,
     relativity |->
        <<<<"t", "i", "m", "e", " ", "d", "i", "l", "a", "t", "i", "o", "n">>,
          <<"m", "a", "s", "s", "-", "e", "n", "e", "r", "g", "y">>,
          <<"g", "r", "a", "v", "i", "t", "y">>>>,
     biology |->
        <<<<"e", "v", "o", "l", "u", "t", "i", "o", "n">>,
          <<"a", "d", "a", "p", "t", "a", "t", "i", "o", "n">>,
          <<"h", "o", "m", "e", "o", "s", "t", "a", "s", "i", "s">>>>]

\* sum(...) over a list of booleans
RECURSIVE sum_true(_)
sum_true(bs) ==
    IF bs = <<>> THEN 0
    ELSE (IF Head(bs) THEN 1 ELSE 0) + sum_true(Tail(bs))

RECURSIVE sum_ints(_)
sum_ints(ns) == IF ns = <<>> THEN 0 ELSE Head(ns) + sum_ints(Tail(ns))

\* sum(text.lower().count(principle.lower()) for principle in principles)
keyword_hits_counting(ps, t) ==
    sum_ints([i \in DOMAIN ps |-> count_occurrences(lower(ps[i]), lower(t))])

\* sum(principle.lower() in text.lower() for principle in principles)
keyword_hits(ps, t) ==
    sum_true([i \in DOMAIN ps |-> contains(lower(ps[i]), lower(t))])

\* analyze_text(text): category -> score / len(principles)
analyze_text(t) ==
    [c \in Range(Categories) |->
        <<keyword_hits(principles[c], t), Len(principles[c])>>]

NoScores == <<>>

-----------------------------------------------------------------------------
(* time.time() *)

\* readings equal to the one before, among those log records
SameReads(log) == Len(log) - Cardinality({log[i].key : i \in DOMAIN log})

\* the values a time.time() call can return when the latest reading was c:
\* a later one (c + 1 stands for any), or, on a clock that has not ticked
\* since, the same one.  A system clock set back between two calls is left
\* out.
time_after(c, log) ==
    {c + 1} \cup (IF Len(log) > 0 /\ SameReads(log) < MaxSameReads
                  THEN {c} ELSE {})

time_time == time_after(clock, calls)

-----------------------------------------------------------------------------
(* The agent's variables before any agent exists. *)

NoResult == <<"<nothing returned>">>
NoException == [type |-> "none", msg |-> <<>>]

AgentIdle ==
    /\ pc = "idle"
    /\ query = <<>>
    /\ sent = <<>>
    /\ submitted = 0
    /\ raised = NoException
    /\ result = NoResult
    /\ console = <<>>

-----------------------------------------------------------------------------
(* The stand-alone visualizer: any sequence of add_thought calls. *)

\* the (thought, category) arguments a caller passes
ThoughtArgs == {<<<<"a">>, <<"INPUT">>>>, <<<<"b">>, <<"OUTPUT">>>>}

VizInit ==
    /\ thought_graph = EmptyGraph
    /\ thought_queue = <<>>
    /\ clock = 0
    /\ calls = <<>>
    /\ text = <<>>
    /\ scores = NoScores
    /\ AgentIdle

AddThought ==
    /\ Len(calls) < MaxThoughts
    /\ \E args \in ThoughtArgs, timestamp \in time_time :
         LET r == record_thought([graph |-> thought_graph,
                                  queue |-> thought_queue,
                                  calls |-> calls],
                                 args[1], args[2], timestamp)
         IN  /\ thought_graph' = r.graph
             /\ thought_queue' = r.queue
             /\ calls' = r.calls
             /\ clock' = timestamp
    /\ UNCHANGED <<analyzer_vars, agent_vars>>

VizNext == AddThought

VizSpec == VizInit /\ [][VizNext]_vars

-----------------------------------------------------------------------------
(* The analyzer alone: analyze_text applied to a text. *)

\* a text is up to MaxFragments of these, one after the other
Fragments ==
    {<<"s", "u", "p", "e", "r", "p", "o", "s", "i", "t", "i", "o", "n">>,
     <<"E", "n", "t", "a", "n", "g", "l", "e", "m", "e", "n", "t">>,
     <<"E", "N", "T", "R", "O", "P", "Y">>,
     <<"e", "n", "e", "r", "g", "y", " ">>,
     <<"c", "o", "n", "s", "e", "r", "v", "a", "t", "i", "o", "n">>,
     <<"m", "a", "s", "s", "-">>,
     <<"G", "r", "a", "v", "i", "t", "y">>,
     <<" ">>,
     <<"x">>}

RECURSIVE flatten(_)
flatten(ss) == IF ss = <<>> THEN <<>> ELSE Head(ss) \o flatten(Tail(ss))

Texts ==
    {flatten(fs) : fs \in UNION {[1..n -> Fragments] : n \in 0..MaxFragments}}

AnalyzeInit ==
    /\ thought_graph = EmptyGraph
    /\ thought_queue = <<>>
    /\ clock = 0
    /\ calls = <<>>
    /\ text \in Texts
    /\ scores = NoScores
    /\ AgentIdle

AnalyzeText ==
    /\ scores = NoScores
    /\ scores' = analyze_text(text)
    /\ UNCHANGED <<viz_vars, text, agent_vars>>

AnalyzeNext == AnalyzeText

AnalyzeSpec == AnalyzeInit /\ [][AnalyzeNext]_vars

-----------------------------------------------------------------------------
(* class UniversalAgent *)

\* the content of universal_prompt.md
system_prompt == <<"<universal_prompt.md>">>

\* what Prompt.ask returned when it raised instead
NoQuery == <<"<KeyboardInterrupt>">>

\* the texts a response of the model can hold
ReplyTexts ==
    {<<"G", "r", "a", "v", "i", "t", "y", " ", "b", "e", "n", "d", "s", " ", "t", "i", "m", "e">>,
     <<"e", "n", "t", "r", "o", "p", "y", " ", "E", "n", "t", "r", "o", "p", "y", " ", "e", "n", "t", "r", "o", "p", "y">>,
     <<" ", "\n">>,
     <<>>}

\* what chat.send_message(query) can do: return a response holding a text,
\* return a response whose .text raises (a blocked one), raise, or be
\* interrupted from the keyboard (the call is where process_query waits)
Replies ==
    {[kind |-> "text", text |-> t] : t \in ReplyTexts} \cup
    {[kind |-> "blocked", text |-> <<"response was blocked">>],
     [kind |-> "error", text |-> <<"503 Service Unavailable">>],
     [kind |-> "interrupt", text |-> <<>>]}

\* a clause that catches the errors of the model call only
is_Exception_narrow(e) == e.type = "Exception"

\* the classes except Exception catches (KeyboardInterrupt is not one)
is_Exception(e) == e.type \in {"Exception", "ValueError", "ZeroDivisionError"}

\* _analyze_response(response): the analysis, or the exception of the division
analyze_response(response) ==
    LET words == split(response)
    IN  IF Len(words) = 0
        THEN [raised |-> [type |-> "ZeroDivisionError",
                          msg |-> <<"division by zero">>],
              science_scores |-> NoScores,
              complexity |-> <<0, 0>>]
        ELSE [raised |-> NoException,
              science_scores |-> analyze_text(response),
              complexity |-> <<Cardinality(Range(words)), Len(words)>>]

\* _create_science_table(scores): a row per category, in the dict's order
create_science_table(sc) ==
    [i \in DOMAIN Categories |->
        <<Categories[i], " | ">> \o format_2f(sc[Categories[i]])]

\* self._analyze_response(response.text) for each text the model can
\* answer with, computed once
response_analysis == [t \in ReplyTexts |-> analyze_response(t)]

\* what the try block of process_query raises, if anything, on this reply
raised_in_try(reply) ==
    IF reply.kind = "error" THEN [type |-> "Exception", msg |-> reply.text]
    ELSE IF reply.kind = "interrupt"
    THEN [type |-> "KeyboardInterrupt", msg |-> <<>>]
    ELSE IF reply.kind = "blocked"
    THEN [type |-> "ValueError", msg |-> reply.text]
    ELSE response_analysis[reply.text].raised

\* f"Error in processing: {str(e)}"
error_msg(e) == <<"Error in processing: ">> \o e.msg

\* a process_query that records no OUTPUT thought
record_output_skipped(st, analysis, t2) == st

\* the add_thought call that ends a successful process_query
record_output(st, analysis, t2) ==
    record_thought(st,
                   <<"Response generated (complexity: ">>
                       \o format_2f(analysis.complexity) \o <<")">>,
                   <<"OUTPUT">>, t2)

\* process_query(query) on the visualizer state st = [graph, queue, calls],
\* when the model answers reply and the two time.time() calls return t1, t2
process_query(st, q, reply, t1, t2) ==
    LET st1 == record_thought(st, <<"Query received: ">> \o q, <<"INPUT">>, t1)
        e == raised_in_try(reply)
        analysis == response_analysis[reply.text]
    IN  IF e = NoException
        THEN [visualizer |-> record_output(st1, analysis, t2), clock |-> t2,
              console |-> <<<<"Response:">>, reply.text,
                            <<"Thought Process:">>,
                            generate_visualization(st1.graph, st1.queue),
                            <<"Analysis:">>>>
                          \o create_science_table(analysis.science_scores),
              returned |-> reply.text,
              raised |-> e, propagated |-> NoException]
        ELSE IF is_Exception(e)
        THEN [visualizer |-> st1, clock |-> t1,
              console |-> <<<<"[red]">> \o error_msg(e) \o <<"[/red]">>>>,
              returned |-> error_msg(e),
              raised |-> e, propagated |-> NoException]
        ELSE [visualizer |-> st1, clock |-> t1,
              console |-> <<>>,
              returned |-> NoResult,
              raised |-> e, propagated |-> e]

\* the nodes that carry a response_time attribute
nodes_with_response_time(g) ==
    {n \in DOMAIN g.node : "response_time" \in DOMAIN g.node[n]}

RECURSIVE sum_response_time(_, _)
sum_response_time(g, ns) ==
    IF ns = {} THEN 0
    ELSE LET n == CHOOSE n \in ns : TRUE
         IN  g.node[n].response_time + sum_response_time(g, ns \ {n})

\* f"{avg_response_time:.2f}s": np.mean of an empty list is nan
average_response_time(g, num_queries) ==
    LET ns == nodes_with_response_time(g)
    IN  IF num_queries > 0
        THEN (IF ns = {} THEN <<"nan">>
              ELSE format_2f(<<sum_response_time(g, ns), Cardinality(ns)>>))
        ELSE format_2f(<<0, 1>>)

\* num_queries = len(self.thought_visualizer.thought_queue)
num_queries(q) == Len(q)

\* _display_session_stats(): the two rows of the table
display_session_stats(g, q) ==
    <<<<"Total Queries", " | ">> \o str_int(num_queries(q)),
      <<"Average Response Time", " | ">>
          \o average_response_time(g, num_queries(q)) \o <<"s">>>>

-----------------------------------------------------------------------------
(* The session: __init__, then the loop of run_interactive. *)

Queries ==
    {<<"e", "x", "i", "t">>, <<"E", "X", "I", "T">>,
     <<"s", "t", "a", "t", "s">>, <<"S", "t", "a", "t", "s">>,
     <<"v", "i", "z">>, <<"V", "I", "Z">>,
     <<"h", "i">>,
     <<"e", "x", "i", "t", "s">>}

\* after UniversalAgent(api_key) returned and run_interactive reached its loop
AgentInit ==
    /\ LET st == record_thought([graph |-> EmptyGraph, queue |-> <<>>,
                                 calls |-> <<>>],
                                <<"System initialization complete">>,
                                <<"SYSTEM">>, 1)
       IN  /\ thought_graph = st.graph
           /\ thought_queue = st.queue
           /\ calls = st.calls
           /\ clock = 1
    /\ text = <<>>
    /\ scores = NoScores
    /\ pc = "prompt"
    /\ query = <<>>
    /\ sent = <<system_prompt>>
    /\ submitted = 0
    /\ raised = NoException
    /\ result = NoResult
    /\ console = <<>>

\* query.lower() == 'exit'
Exit ==
    /\ pc = "prompt"
    /\ \E q \in Queries :
         /\ lower(q) = <<"e", "x", "i", "t">>
         /\ query' = q
    /\ console' = <<<<"Shutting down quantum systems... Goodbye!">>>>
    /\ pc' = "done"
    /\ UNCHANGED <<viz_vars, analyzer_vars, sent, submitted, raised, result>>

\* query.lower() == 'stats'
Stats ==
    /\ pc = "prompt"
    /\ \E q \in Queries :
         /\ lower(q) # <<"e", "x", "i", "t">>
         /\ lower(q) = <<"s", "t", "a", "t", "s">>
         /\ query' = q
    /\ console' = display_session_stats(thought_graph, thought_queue)
    /\ UNCHANGED <<viz_vars, analyzer_vars, pc, sent, submitted, raised, result>>

\* query.lower() == 'viz'
Viz ==
    /\ pc = "prompt"
    /\ \E q \in Queries :
         /\ lower(q) # <<"e", "x", "i", "t">>
         /\ lower(q) # <<"s", "t", "a", "t", "s">>
         /\ lower(q) = <<"v", "i", "z">>
         /\ query' = q
    /\ console' = <<generate_visualization(thought_graph, thought_queue)>>
    /\ UNCHANGED <<viz_vars, analyzer_vars, pc, sent, submitted, raised, result>>

\* self.process_query(query), and the except clauses around it
Query ==
    /\ pc = "prompt"
    /\ submitted < MaxTurns
    /\ \E q \in Queries, reply \in Replies, t1 \in time_time :
         /\ lower(q) # <<"e", "x", "i", "t">>
         /\ lower(q) # <<"s", "t", "a", "t", "s">>
         /\ lower(q) # <<"v", "i", "z">>
         /\ \E t2 \in time_after(t1, log_thought(calls, <<>>, <<>>, t1)) :
              \E r \in {process_query([graph |-> thought_graph,
                                       queue |-> thought_queue,
                                       calls |-> calls], q, reply, t1, t2)} :
                  /\ query' = q
                  /\ sent' = Append(sent, q)
                  /\ submitted' = submitted + 1
                  /\ thought_graph' = r.visualizer.graph
                  /\ thought_queue' = r.visualizer.queue
                  /\ calls' = r.visualizer.calls
                  /\ clock' = r.clock
                  /\ raised' = r.raised
                  /\ result' = r.returned
                  /\ IF r.propagated = NoException
                     THEN /\ console' = r.console
                          /\ pc' = "prompt"
                     ELSE IF r.propagated.type = "KeyboardInterrupt"
                     THEN /\ console' = r.console \o
                              <<<<"Emergency shutdown initiated... Goodbye!">>>>
                          /\ pc' = "done"
                     ELSE /\ console' = r.console \o
                              <<<<"Critical error: ">> \o r.propagated.msg>>
                          /\ pc' = "prompt"
    /\ UNCHANGED analyzer_vars

\* KeyboardInterrupt while Prompt.ask waits
Interrupt ==
    /\ pc = "prompt"
    /\ query' = NoQuery
    /\ console' = <<<<"Emergency shutdown initiated... Goodbye!">>>>
    /\ pc' = "done"
    /\ UNCHANGED <<viz_vars, analyzer_vars, sent, submitted, raised, result>>

Next == Exit \/ Stats \/ Viz \/ Query \/ Interrupt

Spec == AgentInit /\ [][Next]_vars

-----------------------------------------------------------------------------
(* Properties of the thought graph, checked under VizSpec. *)

Nodes == DOMAIN thought_graph.node
Edges == thought_graph.edge

InDegree(n) == Cardinality({e \in Edges : e[2] = n})
OutDegree(n) == Cardinality({e \in Edges : e[1] = n})

\* the nodes reached from the set S by at most k edges
RECURSIVE ReachedFrom(_, _)
ReachedFrom(S, k) ==
    IF k = 0 THEN S
    ELSE ReachedFrom(S \cup {e[2] : e \in {d \in Edges : d[1] \in S}}, k - 1)

OnCycle(n) ==
    n \in ReachedFrom({e[2] : e \in {d \in Edges : d[1] = n}}, Cardinality(Nodes))

\* C2: after any sequence of add_thought calls the graph is a chain: every
\* node has at most one incoming and at most one outgoing edge, and no node
\* lies on a directed cycle (so none has a self-loop).
C2_Chain ==
    \A n \in Nodes :
        /\ InDegree(n) <= 1
        /\ OutDegree(n) <= 1
        /\ ~OnCycle(n)

\* C3: the keys of successive add_thought calls are strictly increasing, so
\* every call creates a node of its own (as many nodes as calls, each still
\* holding the thought and category of its call) and every edge goes from a
\* smaller key to a larger one.
C3_MonotoneKeys ==
    /\ \A i, j \in DOMAIN calls : i < j => calls[i].key < calls[j].key
    /\ Cardinality(Nodes) = Len(calls)
    /\ \A i \in DOMAIN calls :
           /\ calls[i].key \in Nodes
           /\ thought_graph.node[calls[i].key] =
                  [thought |-> calls[i].thought, category |-> calls[i].category]
    /\ \A e \in Edges : e[1] < e[2]

\* C4 as stated: generate_visualization returns the thoughts of all
\* add_thought calls, each as "[category] thought" with the arguments of its
\* own call, in the order of the calls; it returns "No thoughts processed
\* yet." exactly when no call was made (stated of the runs in which no
\* clock reading repeats, so that a repeated reading is not what refutes it).
C4_VisualizationIsCallLog ==
    SameReads(calls) = 0 =>
        generate_visualization(thought_graph, thought_queue) =
            IF Len(calls) = 0
            THEN <<"No thoughts processed yet.">>
            ELSE join(Arrow,
                      [i \in DOMAIN calls |->
                          <<"[">> \o calls[i].category \o <<"] ">>
                              \o calls[i].thought])

\* the latest call that read the same clock value as call i
LatestWithKeyOf(i) ==
    calls[CHOOSE j \in DOMAIN calls :
              /\ calls[j].key = calls[i].key
              /\ \A k \in DOMAIN calls : calls[k].key = calls[i].key => k <= j]

\* C4: generate_visualization returns one entry for each of the min(n, 10)
\* latest add_thought calls, in the order of the calls, each entry being
\* "[category] thought" with the arguments of the latest call that read the
\* same clock value (the call's own when no later call did); it returns "No
\* thoughts processed yet." exactly when no call was made.
C4_VisualizationIsQueueWindow ==
    LET n == Len(calls)
        m == Min(n, 10)
        v == generate_visualization(thought_graph, thought_queue)
    IN  /\ (v = <<"No thoughts processed yet.">>) <=> (n = 0)
        /\ n > 0 =>
               v = join(Arrow,
                        [i \in 1..m |->
                            <<"[">> \o LatestWithKeyOf(n - m + i).category
                                \o <<"] ">> \o LatestWithKeyOf(n - m + i).thought])

\* more than 10 calls were made, and one of the latest 10 read the clock
\* value of the call before it, which passed another thought
C4_Witness ==
    /\ Len(calls) > 10
    /\ \E i \in DOMAIN calls :
           /\ i > Len(calls) - 9
           /\ calls[i].key = calls[i - 1].key
           /\ calls[i].thought # calls[i - 1].thought

\* the entries a visualization lists
EntriesShown(v) == Cardinality({i \in DOMAIN v : v[i] = "["})

-----------------------------------------------------------------------------
(* Properties of analyze_text, checked under AnalyzeSpec. *)

SameLetter(a, b) ==
    a = b \/ \E n \in DOMAIN UpperCase : {a, b} = {UpperCase[n], LowerCase[n]}

\* keyword occurs in t at some position, letter case ignored
OccursIgnoringCase(keyword, t) ==
    \E i \in 1..Len(t) :
        /\ i + Len(keyword) - 1 <= Len(t)
        /\ \A j \in 1..Len(keyword) : SameLetter(t[i + j - 1], keyword[j])

\* C5: analyze_text scores exactly the categories quantum, thermo, relativity
\* and biology; each score is the number of the category's three keywords
\* that occur in the text, letter case ignored and each keyword counted once,
\* divided by 3: one of 0, 1/3, 2/3, 1.
C5_Scores ==
    scores # NoScores =>
        /\ DOMAIN scores = {"quantum", "thermo", "relativity", "biology"}
        /\ \A c \in DOMAIN scores :
               /\ scores[c][2] = 3
               /\ scores[c][1] \in 0..3
               /\ scores[c][1] =
                      Cardinality({k \in 1..3 :
                          OccursIgnoringCase(principles[c][k], text)})

\* a text holding one keyword twice, in capitals, scored 1/3
C5_Witness ==
    /\ scores # NoScores
    /\ count_occurrences(<<"E", "N", "T", "R", "O", "P", "Y">>, text) = 2
    /\ scores["thermo"] = <<1, 3>>
    /\ scores["quantum"] = <<0, 3>>

-----------------------------------------------------------------------------
(* Properties of the session, checked under Spec. *)

\* a step that is one process_query call
IsTurn == submitted' = submitted + 1

IsPrefix(p, str) == Len(p) <= Len(str) /\ SubSeq(str, 1, Len(p)) = p

\* the clock readings of this step's add_thought calls are new keys, each
\* another one
FreshReadings ==
    Cardinality({calls'[i].key : i \in DOMAIN calls'} \ Nodes)
        = Len(calls') - Len(calls)

\* C1 as stated: each process_query call adds exactly one node to
\* thought_graph (stated of the turns in which no clock reading repeats a
\* key, so that a repeated reading is not what refutes it).
C1_OneNodePerTurn ==
    [][(IsTurn /\ FreshReadings)
           => Cardinality(Nodes') = Cardinality(Nodes) + 1]_vars

\* C1: a process_query call that returns the response makes two add_thought
\* calls, an INPUT thought for the query and then an OUTPUT thought that the
\* latest key of the queue holds; a call in which send_message or the
\* analysis raises makes one, the INPUT thought, and the latest key holds it.
\* The graph gains at most one node per add_thought call: at most two a turn.
C1_ThoughtsPerTurn ==
    [][IsTurn =>
         LET made == Len(calls') - Len(calls)
             added == Cardinality(Nodes') - Cardinality(Nodes)
             newest == thought_graph'.node[Last(thought_queue')]
             input == [thought |-> <<"Query received: ">> \o query',
                       category |-> <<"INPUT">>]
         IN  /\ 0 <= added /\ added <= made
             /\ IF raised'.type = "none"
                THEN /\ result' # NoResult
                     /\ made = 2
                     /\ [thought |-> calls'[Len(calls') - 1].thought,
                         category |-> calls'[Len(calls') - 1].category] = input
                     /\ newest.category = <<"OUTPUT">>
                     /\ IsPrefix(<<"Response generated (complexity: ">>,
                                 newest.thought)
                ELSE /\ made = 1
                     /\ newest = input]_vars

\* a turn that returned the response and added two nodes
C1_Witness ==
    /\ submitted = 1
    /\ raised.type = "none"
    /\ result # NoResult
    /\ Len(calls) = 3
    /\ Cardinality(Nodes) = 3

\* C6: when the model call or the analysis raises in process_query, the call
\* returns a string that begins "Error in processing: ", nothing reaches the
\* except clauses of run_interactive, and the loop is back at its prompt.
C6_CatchAndPrint ==
    [][(IsTurn /\ raised'.type \in {"Exception", "ValueError", "ZeroDivisionError"})
         => /\ result' # NoResult
            /\ IsPrefix(<<"Error in processing: ">>, result')
            /\ \A i \in DOMAIN console' :
                   ~IsPrefix(<<"Critical error: ">>, console'[i])
            /\ pc' = "prompt"]_vars

\* the analysis failed on a response without a word, and the loop goes on
C6_Witness ==
    /\ submitted >= 1
    /\ raised.type = "ZeroDivisionError"
    /\ result = <<"Error in processing: ", "division by zero">>
    /\ pc = "prompt"

\* q is word in some mix of upper and lower case
IsSpelling(q, word) ==
    /\ Len(q) = Len(word)
    /\ \A i \in DOMAIN q : SameLetter(q[i], word[i])

IsExit(q) == IsSpelling(q, <<"e", "x", "i", "t">>)
IsStats(q) == IsSpelling(q, <<"s", "t", "a", "t", "s">>)
IsViz(q) == IsSpelling(q, <<"v", "i", "z">>)
IsCommand(q) == IsExit(q) \/ IsStats(q) \/ IsViz(q)

\* C7: in an iteration of the loop, an input that spells exit, stats or viz
\* in any letter case is not sent to the model, is not given to
\* process_query, and leaves the thought graph and the thought queue as they
\* were; exit ends the loop, stats and viz return to the prompt; every other
\* input is given to process_query, which sends it to the model; the loop
\* ends only on exit or on a keyboard interrupt.
C7_Commands ==
    [][pc = "prompt" =>
         /\ IsCommand(query') =>
                /\ sent' = sent
                /\ submitted' = submitted
                /\ thought_graph' = thought_graph
                /\ thought_queue' = thought_queue
         /\ IsExit(query') => pc' = "done"
         /\ (IsStats(query') \/ IsViz(query')) => pc' = "prompt"
         /\ (~IsCommand(query') /\ query' # NoQuery) =>
                /\ submitted' = submitted + 1
                /\ sent' = Append(sent, query')
         /\ pc' = "done" =>
                \/ IsExit(query')
                \/ query' = NoQuery
                \/ raised'.type = "KeyboardInterrupt"]_vars

\* after a query, EXIT in capitals ended the loop
C7_Witness ==
    /\ pc = "done"
    /\ query = <<"E", "X", "I", "T">>
    /\ submitted >= 1
    /\ Len(sent) = submitted + 1

\* C8: the Total Queries row that stats shows holds the number of queries
\* given to process_query so far.
C8_TotalQueries ==
    (Len(console) > 0 /\ IsPrefix(<<"Total Queries">>, console[1]))
        => console[1] = <<"Total Queries", " | ">> \o str_int(submitted)

=============================================================================
